---- MODULE Spec2Model ----
(***************************************************************************)
(* The payment worker of Microservices-Errorhandling                       *)
(* (services/payment/service.go, services/payment/cmd/main.go) as a state  *)
(* machine: NewService's connection retry loop, createOrderListener, the   *)
(* ListenOrders consumer loop with its ack / rollback / publish protocol,  *)
(* and createServer's shutdown, running against a RabbitMQ broker that     *)
(* holds a durable queue of order messages.                                *)
(*                                                                         *)
(* Environment (github.com/streadway/amqp and the broker):                 *)
(*  - every operation on a closed channel returns an error;                *)
(*  - an Ack returns nil exactly when the channel is still open, and the   *)
(*    broker then removes the message from the queue;                      *)
(*  - when a channel or connection is lost the broker requeues the         *)
(*    unacknowledged deliveries of that channel, the delivery stream of    *)
(*    its consumers is closed and what the client had buffered is dropped; *)
(*  - the broker may cancel a consumer (basic.cancel): the delivery stream *)
(*    is closed after its buffered deliveries, the channel stays open;     *)
(*  - the broker pushes a delivery only while the channel holds fewer      *)
(*    unacknowledged deliveries than its prefetch count;                   *)
(*  - the process may be started again once it has ended; it is not        *)
(*    killed while it runs.                                                *)
(***************************************************************************)
EXTENDS Integers, Sequences, FiniteSets, TLC

VARIABLES
    pc,            \* position of the process (main goroutine)
    service,       \* "none" | "ok" | "nil": what NewService returned
    i,             \* NewService: loop counter of the retry loop
    err,           \* NewService: the err variable (TRUE = non-nil)
    attempts,      \* history: calls of initAmqpConnection in this run
    sleeps,        \* history: durations (seconds) slept by NewService in this run
    AmqpConn,      \* Service.AmqpConn: connection id, 0 = nil
    AmqpChannel,   \* Service.AmqpChannel: id of the connection it was opened on, 0 = nil
    chanOpen,      \* the channel behind Service.AmqpChannel is open
    prefetch,      \* prefetch count set on that channel by Qos, 0 = unlimited
    openConns,     \* connections this process has dialed and not closed
    nextConn,      \* next connection id
    streamOpen,    \* Service.orderMessages is an open delivery stream
    consuming,     \* the broker has an active consumer for this channel
    buffer,        \* deliveries pushed by the broker, not yet pulled by the loop
    body,          \* per queue message: its body
    msgState,      \* per queue message: "ready" | "unacked" | "acked"
    hist,          \* history: one record per delivery of this run (index = delivery tag)
    message,       \* ListenOrders: delivery tag of the loop variable, 0 = none
    order,         \* ListenOrders: the decoded Order (zero outside the loop body)
    isAllowed,     \* ListenOrders: result of mockPayment (FALSE outside the loop body)
    ledger,        \* history: per message, authorizations not rolled back, and was one rolled back
    setups,        \* history: createOrderListener calls since the stream last ended
    ended,         \* history: stream terminations observed by ListenOrders in this run
    lost,          \* history: the channel behind Service.AmqpChannel was lost
    closeLog,      \* history: Close calls made by createServer in this run
    cancels,       \* consumer cancellations in this run (bounded)
    run,           \* process runs so far
    arg,           \* mockPayment: the creditCard argument of the call
    rest,          \* mockPayment: what the range loop has not yet read of creditCard
    slept,         \* mockPayment: milliseconds slept so far
    mp             \* mockPayment: "idle" | "entry" | "range" | "true" | "false"

serviceVars == <<pc, service, i, err, attempts, sleeps, AmqpConn, AmqpChannel, chanOpen,
                 prefetch, openConns, nextConn, streamOpen, consuming, buffer, body,
                 msgState, hist, message, order, isAllowed, ledger, setups,
                 ended, lost, closeLog, cancels, run>>

cardVars == <<arg, rest, slept, mp>>

vars == <<serviceVars, cardVars>>

----------------------------------------------------------------------------
\* Bounds of the model

NumMsgs == 3
MaxDeliveries == 2
MaxRuns == 2
MaxCancels == 1
\* attempts of one NewService call whose Dial succeeds and whose Channel or Qos fails
MaxLeaks == 1
\* length of the card strings mockPayment is called with, the examples aside
MaxCardLen == 3

Msgs == 1..NumMsgs

----------------------------------------------------------------------------
\* Program constants

MaxAttempts == 6
PrefetchCount == 1
\* rand.Intn(5)
RandBound == 5

\* the status names and messages stand for the values of the models package
\* (models.StatusAborted(msg), models.StatusShipping(), the status of an order
\* that is due for payment)
StatusPaying == "Paying"
StatusAborted == "Aborted"
StatusShipping == "Shipping"
AbortedMessage == "We could not get the needed amount from your credit card. Please check your account."
ShippingMessage == "shipping"

----------------------------------------------------------------------------
\* Credit-card strings: sequences of one-character strings

\* strings.ToLower, over the letters in use
Lower(c) ==
    CASE c = "A" -> "a"
      [] c = "B" -> "b"
      [] c = "C" -> "c"
      [] c = "D" -> "d"
      [] c = "Z" -> "z"
      [] OTHER -> c

ToLower_AsIs(s) == s

ToLower(s) == [k \in 1..Len(s) |-> Lower(s[k])]

IsSpace(c) == c \in {" ", "\t"}

RECURSIVE TrimLeft(_)
TrimLeft(s) ==
    IF s # <<>> /\ IsSpace(Head(s)) THEN TrimLeft(Tail(s)) ELSE s

RECURSIVE TrimRight(_)
TrimRight(s) ==
    IF s # <<>> /\ IsSpace(s[Len(s)]) THEN TrimRight(SubSeq(s, 1, Len(s) - 1)) ELSE s

TrimSpace(s) == TrimRight(TrimLeft(s))

\* charVariable >= 'a' && charVariable <= 'z', over the letters in use
IsLowerLetter(c) == c \in {"a", "b", "c", "d", "z"}

\* the range loop of mockPayment / mockPaymentRollback: TRUE when it ran over
\* every character, FALSE when it returned at a character in a..z
RECURSIVE ScanCard(_)
ScanCard(s) ==
    IF s = <<>> THEN TRUE
    ELSE IF IsLowerLetter(Head(s)) THEN FALSE
    ELSE ScanCard(Tail(s))

mockPayment(creditCard) == ScanCard(ToLower(TrimSpace(creditCard)))

\* the fields of models.Order this service never reads: opaque payload
Items(n) == <<"article", n>>

Address(n) == <<"street", n>>

\* the messages on the queue, in turn: an order with a card that mockPayment
\* accepts, an order with a card that it rejects, and a body that
\* json.Unmarshal cannot decode into models.Order (valid = FALSE)
Bodies(n) ==
    CASE n % 3 = 1 -> [valid |-> TRUE, id |-> n, customerCreditCard |-> <<" ", "4", "2", "-", "4">>,
                       status |-> StatusPaying, message |-> "",
                       items |-> Items(n), address |-> Address(n)]
      [] n % 3 = 2 -> [valid |-> TRUE, id |-> n, customerCreditCard |-> <<"4", "1", "A", "b">>,
                       status |-> StatusPaying, message |-> "",
                       items |-> Items(n), address |-> Address(n)]
      [] OTHER -> [valid |-> FALSE, id |-> 0, customerCreditCard |-> <<>>,
                   status |-> "", message |-> "", items |-> <<>>, address |-> <<>>]

\* the zero value of models.Order
NoOrder == [id |-> 0, customerCreditCard |-> <<>>, status |-> "", message |-> "",
            items |-> <<>>, address |-> <<>>]

Decode(b) == [id |-> b.id, customerCreditCard |-> b.customerCreditCard,
              status |-> b.status, message |-> b.message,
              items |-> b.items, address |-> b.address]

----------------------------------------------------------------------------
\* History of a delivery: the steps ListenOrders took for it, in order
\* (steps), and how often it took each of them (n)

StepKinds == {"decode_ok", "decode_err", "auth_true", "auth_false", "ack_ok", "ack_err",
              "rollback", "publish_ok", "publish_err"}

NewDelivery(m) == [msg |-> m, steps |-> <<>>, n |-> [s \in StepKinds |-> 0],
                   rollbackArg |-> <<>>, pubOrder |-> NoOrder]

Step(tag, s) == [hist EXCEPT ![tag].steps = Append(@, s), ![tag].n[s] = @ + 1]

Has(tag, s) == hist[tag].n[s] > 0

Count(tag, s) == hist[tag].n[s]

Unacked == {m \in Msgs : msgState[m] = "unacked"}

\* the broker requeues every unacknowledged delivery of a channel that closed
Requeued == [m \in Msgs |-> IF msgState[m] = "unacked" THEN "ready" ELSE msgState[m]]

InitService ==
    /\ pc = "connect"
    /\ service = "none"
    /\ i = 0
    /\ err = FALSE
    /\ attempts = 0
    /\ sleeps = <<>>
    /\ AmqpConn = 0
    /\ AmqpChannel = 0
    /\ chanOpen = FALSE
    /\ prefetch = 0
    /\ openConns = {}
    /\ nextConn = 1
    /\ streamOpen = FALSE
    /\ consuming = FALSE
    /\ buffer = <<>>
    /\ body = [n \in Msgs |-> Bodies(n)]
    /\ msgState = [m \in Msgs |-> "ready"]
    /\ hist = <<>>
    /\ message = 0
    /\ order = NoOrder
    /\ isAllowed = FALSE
    /\ ledger = [m \in Msgs |-> [charges |-> 0, compensated |-> FALSE]]
    /\ setups = 0
    /\ ended = 0
    /\ lost = FALSE
    /\ closeLog = <<>>
    /\ cancels = 0
    /\ run = 1

\* the process starts in main; no call of mockPayment is under way
Init ==
    /\ InitService
    /\ arg = <<>>
    /\ rest = <<>>
    /\ slept = 0
    /\ mp = "idle"

----------------------------------------------------------------------------
\* NewService

\* time.Sleep(time.Duration(int64(math.Pow(2, float64(i)))) * time.Second)
Backoff(n) == 2 ^ n

QosPrefetch_NoQos(outcome) == 0

\* the prefetch window of the channel after initAmqpConnection: Qos(1, 0, false)
\* is the last call, a channel on which it did not succeed has no window (0)
QosPrefetch(outcome) == IF outcome = "ok" THEN PrefetchCount ELSE 0

\* one iteration of the retry loop: initAmqpConnection, then break or sleep;
\* after the loop, "if err != nil { return nil }"
ConnectAttempt ==
    /\ pc = "connect"
    /\ i < MaxAttempts
    /\ attempts' = attempts + 1
    /\ \E outcome \in {"dial", "channel", "qos", "ok"} :
        /\ outcome \in {"channel", "qos"} => nextConn <= MaxLeaks
        /\ err' = (outcome # "ok")
        /\ IF outcome = "dial"
           THEN UNCHANGED <<AmqpConn, AmqpChannel, chanOpen, prefetch, openConns, nextConn, lost>>
           ELSE /\ AmqpConn' = nextConn
                /\ lost' = FALSE
                /\ openConns' = openConns \cup {nextConn}
                /\ nextConn' = nextConn + 1
                /\ AmqpChannel' = IF outcome = "channel" THEN 0 ELSE nextConn
                /\ chanOpen' = (outcome # "channel")
                /\ prefetch' = QosPrefetch(outcome)
        /\ IF outcome = "ok"
           THEN /\ pc' = "listener"
                /\ UNCHANGED <<i, sleeps, service>>
           ELSE /\ sleeps' = Append(sleeps, Backoff(i))
                /\ i' = i + 1
                /\ pc' = IF i + 1 < MaxAttempts THEN "connect" ELSE "main_listen"
                /\ service' = IF i + 1 < MaxAttempts THEN service ELSE "nil"
    /\ UNCHANGED <<streamOpen, consuming, buffer, body, msgState, hist, message, order,
                   isAllowed, ledger, setups, ended, closeLog, cancels, run>>
    /\ UNCHANGED cardVars

\* createOrderListener: ExchangeDeclare, QueueDeclare, QueueBind, Consume; it
\* returns nil (ok) only on an open channel, and then orderMessages is a new stream
createOrderListener(ok) ==
    /\ ok => chanOpen
    /\ setups' = setups + 1
    /\ IF ok
       THEN /\ streamOpen' = TRUE
            /\ consuming' = TRUE
       ELSE UNCHANGED <<streamOpen, consuming>>

NewServiceResult_AlwaysService(ok) == "ok"

\* what NewService returns after "err = service.createOrderListener()"
NewServiceResult(ok) == IF ok THEN "ok" ELSE "nil"

\* NewService after the loop: createOrderListener, then return service or nil;
\* with the return the record of the retry loop is dropped, err is the error
\* NewService ended with
NewServiceListener ==
    /\ pc = "listener"
    /\ \E ok \in BOOLEAN :
        /\ createOrderListener(ok)
        /\ service' = NewServiceResult(ok)
        /\ err' = ~ok
    /\ pc' = "main_listen"
    /\ i' = 0
    /\ attempts' = 0
    /\ sleeps' = <<>>
    /\ UNCHANGED <<AmqpConn, AmqpChannel, chanOpen, prefetch,
                   openConns, nextConn, buffer, body, msgState, hist, message, order,
                   isAllowed, ledger, ended, lost, closeLog, cancels, run>>
    /\ UNCHANGED cardVars

\* createServer: service.ListenOrders() on what NewService returned; on a nil
\* service the read of service.orderMessages panics and the process dies
MainListen ==
    /\ pc = "main_listen"
    /\ IF service = "ok"
       THEN /\ pc' = "pull"
            /\ UNCHANGED <<chanOpen, openConns, consuming, streamOpen, msgState, buffer>>
       ELSE /\ pc' = "panic"
            /\ chanOpen' = FALSE
            /\ openConns' = {}
            /\ consuming' = FALSE
            /\ streamOpen' = FALSE
            /\ buffer' = <<>>
            /\ msgState' = Requeued
    /\ UNCHANGED <<service, i, err, attempts, sleeps, AmqpConn, AmqpChannel, prefetch,
                   nextConn, body, hist, message, order, isAllowed, ledger,
                   setups, ended, lost, closeLog, cancels, run>>
    /\ UNCHANGED cardVars

----------------------------------------------------------------------------
\* ListenOrders

AfterDecode_AckFirst(decoded) == IF decoded THEN "ack" ELSE "ack_undecoded"

AfterDecode_IgnoreError(decoded) == "authorize"

AfterDecode_SkipAck(decoded) == IF decoded THEN "authorize" ELSE "pull"

\* the branch on the err of json.Unmarshal
AfterDecode(decoded) == IF decoded THEN "authorize" ELSE "ack_undecoded"

\* "for message := range service.orderMessages" followed by json.Unmarshal:
\* the next delivery is pulled and decoded, or the stream has ended and the
\* loop is left
Pull ==
    /\ pc = "pull"
    /\ \/ /\ buffer # <<>>
          /\ buffer' = Tail(buffer)
          /\ IF body[hist[Head(buffer)].msg].valid
             THEN /\ order' = Decode(body[hist[Head(buffer)].msg])
                  /\ hist' = Step(Head(buffer), "decode_ok")
             ELSE /\ order' = NoOrder
                  /\ hist' = Step(Head(buffer), "decode_err")
          /\ pc' = AfterDecode(body[hist[Head(buffer)].msg].valid)
          /\ message' = IF pc' = "pull" THEN 0 ELSE Head(buffer)
          /\ UNCHANGED <<ended, setups>>
       \/ /\ buffer = <<>>
          /\ ~streamOpen
          /\ pc' = "rebuild"
          /\ ended' = ended + 1
          /\ setups' = 0
          /\ UNCHANGED <<message, buffer, order, hist>>
    /\ UNCHANGED <<service, i, err, attempts, sleeps, AmqpConn, AmqpChannel, chanOpen,
                   prefetch, openConns, nextConn, streamOpen, consuming, body, msgState,
                   isAllowed, ledger, lost, closeLog, cancels, run>>
    /\ UNCHANGED cardVars

\* isAllowed := service.mockPayment(order.CustomerCreditCard)
Authorize ==
    /\ pc = "authorize"
    /\ isAllowed' = mockPayment(order.customerCreditCard)
    /\ hist' = Step(message, IF isAllowed' THEN "auth_true" ELSE "auth_false")
    /\ ledger' = IF isAllowed'
                 THEN [ledger EXCEPT ![hist[message].msg].charges = @ + 1]
                 ELSE ledger
    /\ pc' = "ack"
    /\ UNCHANGED <<service, i, err, attempts, sleeps, AmqpConn, AmqpChannel, chanOpen,
                   prefetch, openConns, nextConn, streamOpen, consuming, buffer, body,
                   msgState, message, order, setups, ended, lost,
                   closeLog, cancels, run>>
    /\ UNCHANGED cardVars

AfterAck_PublishOnAckError(ackOk, allowed) ==
    IF ~ackOk /\ allowed THEN "rollback" ELSE "publish"

AfterAck_NoRollback(ackOk, allowed) == IF ~ackOk THEN "pull" ELSE "publish"

AfterAck_RollbackAlways(ackOk, allowed) == IF ~ackOk THEN "rollback" ELSE "publish"

\* the branch taken after "err = message.Ack(false)" for a decoded order
AfterAck(ackOk, allowed) ==
    IF ~ackOk
    THEN IF allowed THEN "rollback" ELSE "pull"
    ELSE "publish"

\* err = message.Ack(false) for a decoded order, and the branch on err
Ack ==
    /\ pc = "ack"
    /\ hist' = Step(message, IF chanOpen THEN "ack_ok" ELSE "ack_err")
    /\ msgState' = IF chanOpen
                   THEN [msgState EXCEPT ![hist[message].msg] = "acked"]
                   ELSE msgState
    /\ pc' = AfterAck(chanOpen, isAllowed)
    /\ IF pc' = "pull"
       THEN /\ message' = 0
            /\ order' = NoOrder
            /\ isAllowed' = FALSE
       ELSE UNCHANGED <<message, order, isAllowed>>
    /\ UNCHANGED <<service, i, err, attempts, sleeps, AmqpConn, AmqpChannel, chanOpen,
                   prefetch, openConns, nextConn, streamOpen, consuming, buffer, body,
                   ledger, setups, ended, lost, closeLog, cancels, run>>
    /\ UNCHANGED cardVars

RollbackArg_Normalised(o) == ToLower(TrimSpace(o.customerCreditCard))

\* the argument of the mockPaymentRollback call
RollbackArg(o) == o.customerCreditCard

\* service.mockPaymentRollback(order.CustomerCreditCard)
Rollback ==
    /\ pc = "rollback"
    /\ hist' = [Step(message, "rollback") EXCEPT ![message].rollbackArg = RollbackArg(order)]
    /\ ledger' = [ledger EXCEPT ![hist[message].msg].charges = @ - 1,
                                ![hist[message].msg].compensated = TRUE]
    /\ pc' = "pull"
    /\ message' = 0
    /\ order' = NoOrder
    /\ isAllowed' = FALSE
    /\ UNCHANGED <<service, i, err, attempts, sleeps, AmqpConn, AmqpChannel, chanOpen,
                   prefetch, openConns, nextConn, streamOpen, consuming, buffer, body,
                   msgState, setups, ended, lost, closeLog, cancels, run>>
    /\ UNCHANGED cardVars

NewStatus_Swapped(allowed) ==
    IF allowed
    THEN [name |-> StatusAborted, message |-> AbortedMessage]
    ELSE [name |-> StatusShipping, message |-> ShippingMessage]

\* the status set on the order after a successful Ack
NewStatus(allowed) ==
    IF ~allowed
    THEN [name |-> StatusAborted, message |-> AbortedMessage]
    ELSE [name |-> StatusShipping, message |-> ShippingMessage]

WithStatus_MasksCard(o, status) ==
    [o EXCEPT !.status = status.name, !.message = status.message,
              !.customerCreditCard = <<>>]

\* order.Status = status.Name; order.Message = status.Message
WithStatus(o, status) == [o EXCEPT !.status = status.name, !.message = status.message]

AfterPublish_RetryOnError(ok) == IF ok THEN "pull" ELSE "publish"

\* after PublishOrderStatusUpdate its error is only logged: the loop body ends
AfterPublish(ok) == "pull"

\* order.Status / order.Message are set, then order.PublishOrderStatusUpdate
\* sends the order under the routing key of its status, or returns an error
Publish ==
    /\ pc = "publish"
    /\ \E ok \in BOOLEAN :
        /\ ok => chanOpen
        /\ hist' = [Step(message, IF ok THEN "publish_ok" ELSE "publish_err")
                        EXCEPT ![message].pubOrder = WithStatus(order, NewStatus(isAllowed))]
        /\ pc' = AfterPublish(ok)
    /\ IF pc' = "pull"
       THEN /\ message' = 0
            /\ order' = NoOrder
            /\ isAllowed' = FALSE
       ELSE UNCHANGED <<message, order, isAllowed>>
    /\ UNCHANGED <<service, i, err, attempts, sleeps, AmqpConn, AmqpChannel, chanOpen,
                   prefetch, openConns, nextConn, streamOpen, consuming, buffer, body,
                   msgState, ledger, setups, ended, lost, closeLog, cancels, run>>
    /\ UNCHANGED cardVars

\* the else branch of "if err == nil": the undecodable message is acked
AckUndecoded ==
    /\ pc = "ack_undecoded"
    /\ hist' = Step(message, IF chanOpen THEN "ack_ok" ELSE "ack_err")
    /\ msgState' = IF chanOpen
                   THEN [msgState EXCEPT ![hist[message].msg] = "acked"]
                   ELSE msgState
    /\ pc' = "pull"
    /\ message' = 0
    /\ UNCHANGED <<service, i, err, attempts, sleeps, AmqpConn, AmqpChannel, chanOpen,
                   prefetch, openConns, nextConn, streamOpen, consuming, buffer, body,
                   order, isAllowed, ledger, setups, ended, lost,
                   closeLog, cancels, run>>
    /\ UNCHANGED cardVars

AfterRebuild_AlwaysReturn(ok) == "close_channel"

AfterRebuild_Retry(ok) == IF ok THEN "pull" ELSE "rebuild"

\* what ListenOrders does with the result of the createOrderListener call
\* that follows the loop: recurse into ListenOrders, or return
AfterRebuild(ok) == IF ok THEN "pull" ELSE "close_channel"

\* after the loop: createOrderListener on the same service.AmqpChannel, then
\* ListenOrders again, or return to createServer
Rebuild ==
    /\ pc = "rebuild"
    /\ \E ok \in BOOLEAN :
        /\ createOrderListener(ok)
        /\ pc' = AfterRebuild(ok)
    /\ UNCHANGED <<service, i, err, attempts, sleeps, AmqpConn, AmqpChannel, chanOpen,
                   prefetch, openConns, nextConn, buffer, body, msgState, hist, message,
                   order, isAllowed, ledger, ended, lost, closeLog,
                   cancels, run>>
    /\ UNCHANGED cardVars

----------------------------------------------------------------------------
\* createServer after ListenOrders returned

AfterCloseChannel_StopOnError(closeErr) == IF closeErr THEN "done" ELSE "close_conn"

\* what createServer does with the error of service.AmqpChannel.Close(): it
\* logs it and goes on to close the connection
AfterCloseChannel(closeErr) == "close_conn"

\* service.AmqpChannel.Close(), which returns an error on a channel that is
\* closed already; the error is only logged
CloseChannel ==
    /\ pc = "close_channel"
    /\ closeLog' = Append(closeLog, IF chanOpen THEN "channel" ELSE "channel_err")
    /\ chanOpen' = FALSE
    /\ consuming' = FALSE
    /\ streamOpen' = FALSE
    /\ msgState' = IF chanOpen THEN Requeued ELSE msgState
    /\ pc' = AfterCloseChannel(~chanOpen)
    /\ UNCHANGED <<service, i, err, attempts, sleeps, AmqpConn, AmqpChannel, prefetch,
                   openConns, nextConn, buffer, body, hist, message, order, isAllowed,
                   ledger, setups, ended, lost, cancels, run>>
    /\ UNCHANGED cardVars

\* service.AmqpConn.Close(); createServer and main return
CloseConn ==
    /\ pc = "close_conn"
    /\ closeLog' = Append(closeLog, "conn")
    /\ openConns' = openConns \ {AmqpConn}
    /\ pc' = "done"
    /\ UNCHANGED <<service, i, err, attempts, sleeps, AmqpConn, AmqpChannel, chanOpen,
                   prefetch, nextConn, streamOpen, consuming, buffer, body, msgState,
                   hist, message, order, isAllowed, ledger, setups, ended,
                   lost, cancels, run>>
    /\ UNCHANGED cardVars

\* the process has ended and is started again (main); the broker keeps the
\* queue, every connection of the old process is gone
Restart ==
    /\ pc \in {"done", "panic"}
    /\ run < MaxRuns
    /\ run' = run + 1
    /\ pc' = "connect"
    /\ service' = "none"
    /\ i' = 0
    /\ err' = FALSE
    /\ attempts' = 0
    /\ sleeps' = <<>>
    /\ AmqpConn' = 0
    /\ AmqpChannel' = 0
    /\ chanOpen' = FALSE
    /\ prefetch' = 0
    /\ openConns' = {}
    /\ nextConn' = 1
    /\ streamOpen' = FALSE
    /\ consuming' = FALSE
    /\ buffer' = <<>>
    /\ msgState' = Requeued
    /\ message' = 0
    /\ order' = NoOrder
    /\ isAllowed' = FALSE
    /\ setups' = 0
    /\ ended' = 0
    /\ lost' = FALSE
    /\ closeLog' = <<>>
    /\ hist' = <<>>
    /\ cancels' = 0
    /\ UNCHANGED <<body, ledger>>
    /\ UNCHANGED cardVars

----------------------------------------------------------------------------
\* The broker and the network

\* the broker pushes a ready message to the consumer registered by Consume,
\* within the prefetch window set by Qos
BrokerDeliver ==
    /\ consuming
    /\ chanOpen
    /\ Len(hist) < MaxDeliveries
    /\ prefetch = 0 \/ Cardinality(Unacked) < prefetch
    /\ \E m \in Msgs :
        /\ msgState[m] = "ready"
        /\ msgState' = [msgState EXCEPT ![m] = "unacked"]
        /\ hist' = Append(hist, NewDelivery(m))
        /\ buffer' = Append(buffer, Len(hist) + 1)
    /\ UNCHANGED <<pc, service, i, err, attempts, sleeps, AmqpConn, AmqpChannel, chanOpen,
                   prefetch, openConns, nextConn, streamOpen, consuming, body, message,
                   order, isAllowed, ledger, setups, ended, lost, closeLog,
                   cancels, run>>
    /\ UNCHANGED cardVars

\* the channel of the service is lost, alone or with its connection: the
\* stream of deliveries ends, deliveries buffered in the client are dropped
\* and the broker requeues what was not acknowledged; the process still holds
\* the connection object
ChannelLost ==
    /\ chanOpen
    /\ pc \notin {"done", "panic"}
    /\ chanOpen' = FALSE
    /\ consuming' = FALSE
    /\ streamOpen' = FALSE
    /\ msgState' = Requeued
    /\ lost' = TRUE
    /\ buffer' = <<>>
    /\ UNCHANGED <<pc, service, i, err, attempts, sleeps, AmqpConn, AmqpChannel, prefetch,
                   openConns, nextConn, body, hist, message, order, isAllowed, ledger,
                   setups, ended, closeLog, cancels, run>>
    /\ UNCHANGED cardVars

\* the broker cancels the consumer (its queue was deleted): the stream ends
\* after the buffered deliveries, the channel stays open
ConsumerCancelled ==
    /\ consuming
    /\ chanOpen
    /\ cancels < MaxCancels
    /\ cancels' = cancels + 1
    /\ consuming' = FALSE
    /\ streamOpen' = FALSE
    /\ UNCHANGED <<pc, service, i, err, attempts, sleeps, AmqpConn, AmqpChannel, chanOpen,
                   prefetch, openConns, nextConn, buffer, body, msgState, hist, message,
                   order, isAllowed, ledger, setups, ended, lost, closeLog, run>>
    /\ UNCHANGED cardVars

----------------------------------------------------------------------------

Next ==
    \/ ConnectAttempt
    \/ NewServiceListener
    \/ MainListen
    \/ Pull
    \/ Authorize
    \/ Ack
    \/ Rollback
    \/ Publish
    \/ AckUndecoded
    \/ Rebuild
    \/ CloseChannel
    \/ CloseConn
    \/ Restart
    \/ BrokerDeliver
    \/ ChannelLost
    \/ ConsumerCancelled

Spec == Init /\ [][Next]_vars

----------------------------------------------------------------------------
\* mockPayment, statement by statement, called with any card string

Alphabet == {" ", "4", "-", "a", "B"}

Examples == {<<"4", "1", "1", "1", " ", "1", "1", "1", "1">>,
             <<"a", "b", "c", "1", "2", "3">>,
             <<"4", "1", "1", "1", "A", "B", "C", "D">>}

Cards == UNION {[1..n -> Alphabet] : n \in 0..MaxCardLen} \cup Examples

CardInit ==
    /\ InitService
    /\ arg \in Cards
    /\ rest = <<>>
    /\ slept = 0
    /\ mp = "entry"

\* creditCard = strings.ToLower(strings.TrimSpace(creditCard))
mockPaymentEnter ==
    /\ mp = "entry"
    /\ rest' = ToLower(TrimSpace(arg))
    /\ mp' = "range"
    /\ UNCHANGED <<arg, slept, serviceVars>>

\* one iteration of the range loop: the random sleep, then the test of the
\* character, which returns false or goes on
mockPaymentChar ==
    /\ mp = "range"
    /\ rest # <<>>
    /\ \E timeout \in 0..(RandBound - 1) : slept' = slept + timeout
    /\ IF IsLowerLetter(Head(rest))
       THEN /\ mp' = "false"
            /\ rest' = rest
       ELSE /\ mp' = "range"
            /\ rest' = Tail(rest)
    /\ UNCHANGED <<arg, serviceVars>>

\* the range loop is over: return true
mockPaymentReturn ==
    /\ mp = "range"
    /\ rest = <<>>
    /\ mp' = "true"
    /\ UNCHANGED <<arg, rest, slept, serviceVars>>

CardNext ==
    \/ mockPaymentEnter
    \/ mockPaymentChar
    \/ mockPaymentReturn

SpecCard == CardInit /\ [][CardNext]_vars

----------------------------------------------------------------------------
\* Reading the history

Tags == 1..Len(hist)

\* ListenOrders has pulled delivery d and is back at the head of its loop
Finished(d) == hist[d].steps # <<>> /\ d # message

Publishes(d) == Count(d, "publish_ok") + Count(d, "publish_err")

AckAttempts(d) == Count(d, "ack_ok") + Count(d, "ack_err")

\* position of the first step of delivery d that is in S, 0 when there is none
Pos(d, S) ==
    IF \E k \in 1..Len(hist[d].steps) : hist[d].steps[k] \in S
    THEN CHOOSE k \in 1..Len(hist[d].steps) :
            /\ hist[d].steps[k] \in S
            /\ \A j \in 1..(k - 1) : hist[d].steps[j] \notin S
    ELSE 0

Card(d) == body[hist[d].msg].customerCreditCard

\* the loop body has run to its end for delivery d
Terminal(d) ==
    \/ Publishes(d) > 0
    \/ Has(d, "rollback")
    \/ Has(d, "auth_false") /\ Has(d, "ack_err")
    \/ Has(d, "decode_err") /\ AckAttempts(d) > 0

\* one of the calls made for delivery d returned an error
Failed(d) == Has(d, "decode_err") \/ Has(d, "ack_err") \/ Has(d, "publish_err")

\* the positions of ListenOrders inside its range loop
LoopPcs == {"pull", "authorize", "ack", "rollback", "publish", "ack_undecoded"}

\* delivery d was pulled from the stream and its loop body has not ended
InHandling(d) == hist[d].steps # <<>> /\ ~Terminal(d)

Charges(m) == ledger[m].charges

----------------------------------------------------------------------------
\* C1: for every delivery the status publish is invoked at most once, only
\* after the Ack of that delivery returned success, and never for a delivery
\* whose Ack returned an error.
C1_PublishOnlyAfterAck ==
    \A d \in Tags :
        /\ Publishes(d) <= 1
        /\ Publishes(d) = 1 =>
              /\ Has(d, "ack_ok")
              /\ Pos(d, {"ack_ok"}) < Pos(d, {"publish_ok", "publish_err"})
        /\ Has(d, "ack_err") => Publishes(d) = 0

\* one delivery was published after its Ack, another one's Ack failed
C1_Witness ==
    \E d1, d2 \in Tags :
        /\ Has(d1, "publish_ok")
        /\ Finished(d2)
        /\ Has(d2, "ack_err")

\* C2 as stated: every handled delivery either was acknowledged and published
\* exactly once, or its Ack failed and nothing was published.
C2_Original ==
    \A d \in Tags : Finished(d) =>
        \/ Has(d, "ack_ok") /\ Publishes(d) = 1
        \/ Has(d, "ack_err") /\ Publishes(d) = 0

\* C2 amended: every handled delivery that decoded has exactly one Ack
\* attempt, and either that Ack succeeded, the publish was attempted exactly
\* once and there was no rollback, or it failed, nothing was published and the
\* rollback ran exactly when the payment had been authorized.
C2_DecodedOutcome ==
    \A d \in Tags : Finished(d) /\ Has(d, "decode_ok") =>
        /\ AckAttempts(d) = 1
        /\ \/ /\ Has(d, "ack_ok")
              /\ Publishes(d) = 1
              /\ Count(d, "rollback") = 0
           \/ /\ Has(d, "ack_err")
              /\ Publishes(d) = 0
              /\ Count(d, "rollback") = (IF Has(d, "auth_true") THEN 1 ELSE 0)

\* both outcomes in one run: a published delivery and a rolled-back one
C2_Witness ==
    \E d1, d2 \in Tags :
        /\ Finished(d1) /\ Has(d1, "ack_ok") /\ Publishes(d1) = 1
        /\ Finished(d2) /\ Has(d2, "ack_err") /\ Has(d2, "rollback")

\* C3: for every delivery that was authorized and whose Ack failed,
\* mockPaymentRollback has been invoked, once and with the credit-card string
\* of that order, by the time the loop is back at its head for the next pull.
C3_RollbackBeforeNext ==
    \A d \in Tags : Finished(d) /\ Has(d, "auth_true") /\ Has(d, "ack_err") =>
        /\ Count(d, "rollback") = 1
        /\ hist[d].rollbackArg = Card(d)

\* the loop is back at its head after rolling back a card with a leading space
C3_Witness ==
    \E d \in Tags :
        /\ Finished(d)
        /\ Has(d, "ack_err")
        /\ Has(d, "rollback")
        /\ Card(d) # TrimSpace(Card(d))
        /\ pc \in {"pull", "rebuild"}

\* C4: mockPaymentRollback runs only for a delivery that decoded, was
\* authorized and whose Ack failed; a failed Ack after a refused payment is
\* followed by neither rollback nor publish.
C4_RollbackOnlyWhenAuthorized ==
    \A d \in Tags :
        /\ Has(d, "rollback") =>
              /\ Has(d, "decode_ok")
              /\ Has(d, "auth_true")
              /\ Has(d, "ack_err")
              /\ ~Has(d, "ack_ok")
        /\ Finished(d) /\ Has(d, "auth_false") /\ Has(d, "ack_err") =>
              /\ ~Has(d, "rollback")
              /\ Publishes(d) = 0

\* a refused payment whose Ack failed has been handled
C4_Witness ==
    \E d \in Tags : Finished(d) /\ Has(d, "auth_false") /\ Has(d, "ack_err")

\* C5 as stated: an undecodable delivery that ListenOrders has handled is
\* acknowledged.
C5_Original ==
    \A d \in Tags : Finished(d) /\ Has(d, "decode_err") => Has(d, "ack_ok")

\* C5 amended: for an undecodable delivery ListenOrders attempts the Ack
\* exactly once; when it returns nil the message is off the queue, and the
\* delivery stays unacknowledged only when that Ack returned an error, which
\* is when the channel was lost.
C5_UndecodableAckAttempted ==
    \A d \in Tags : Finished(d) /\ Has(d, "decode_err") =>
        /\ AckAttempts(d) = 1
        /\ Has(d, "ack_ok") => msgState[hist[d].msg] = "acked"
        /\ Has(d, "ack_err") => lost

\* an undecodable delivery whose Ack failed has been handled and is back on
\* the queue
C5_Witness ==
    \E d \in Tags :
        /\ Finished(d)
        /\ Has(d, "decode_err")
        /\ Has(d, "ack_err")
        /\ msgState[hist[d].msg] = "ready"

\* C6: the order handed to the publisher has status Shipping when mockPayment
\* returned true and Aborted when it returned false, and every decoded and
\* acknowledged delivery is handed to the publisher with one of the two.
C6_StatusFromAuthorization ==
    \A d \in Tags :
        /\ Publishes(d) > 0 =>
              /\ Has(d, "auth_true") => hist[d].pubOrder.status = StatusShipping
              /\ Has(d, "auth_false") => hist[d].pubOrder.status = StatusAborted
              /\ Has(d, "auth_true") # Has(d, "auth_false")
              /\ hist[d].pubOrder.status \in {StatusShipping, StatusAborted}
        /\ Finished(d) /\ Has(d, "decode_ok") /\ Has(d, "ack_ok") => Publishes(d) = 1

\* one order went out as Shipping and another one as Aborted
C6_Witness ==
    \E d1, d2 \in Tags :
        /\ Has(d1, "publish_ok") /\ hist[d1].pubOrder.status = StatusShipping
        /\ Has(d2, "publish_ok") /\ hist[d2].pubOrder.status = StatusAborted

\* C7: across all deliveries and redeliveries of an order, a successful
\* authorization is either acknowledged or rolled back before the next
\* delivery is handled: an order never carries more than one authorization
\* that was not rolled back, and it carries one only while its delivery is
\* being handled or after that delivery was acknowledged.
C7_NoDoubleCharge ==
    \A m \in Msgs :
        /\ Charges(m) \in {0, 1}
        /\ Charges(m) = 1 =>
              \/ msgState[m] = "acked"
              \/ message # 0 /\ hist[message].msg = m

\* an order was authorized, rolled back, redelivered and authorized again
C7_Witness ==
    \E m \in Msgs : ledger[m].compensated /\ ledger[m].charges = 1 /\ msgState[m] = "acked"

\* C8: after the delivery stream has ended ListenOrders is back in its loop
\* only after exactly one call of createOrderListener, and a delivery that is
\* waiting in the stream or being handled is never of a message whose
\* delivery was acknowledged before.
C8_OneSetupBeforeResume ==
    /\ ended > 0 /\ pc \in {"pull", "authorize", "ack", "rollback", "publish", "ack_undecoded"}
          => setups = 1
    /\ pc = "rebuild" => setups = 0
    /\ \A d \in Tags :
          (d = message \/ \E k \in 1..Len(buffer) : buffer[k] = d) /\ ~Has(d, "ack_ok")
              => msgState[hist[d].msg] # "acked"

\* a delivery is being handled after a stream end and a rebuild, and an
\* earlier delivery was acknowledged before the stream ended
C8_Witness ==
    /\ ended = 1
    /\ setups = 1
    /\ message = 2
    /\ Has(1, "ack_ok")
    /\ pc = "ack"
    /\ \E m \in Msgs : msgState[m] = "acked"

\* C9 as stated, in the form a finite run refutes: when the channel was lost,
\* ListenOrders does not return before a new connection has been dialed.
C9_RedialAfterLoss ==
    lost /\ pc \in {"close_channel", "close_conn", "done"} => attempts > 0

\* C10 as stated: at most 6 attempts, the k-th sleep is 2^(k-1) seconds, and
\* NewService sleeps only between attempts: after the last attempt of the
\* budget there is no sleep.
C10_SleepOnlyBetweenAttempts ==
    /\ attempts <= MaxAttempts
    /\ \A k \in 1..Len(sleeps) : sleeps[k] = 2 ^ (k - 1)
    /\ Len(sleeps) = (IF err /\ attempts < MaxAttempts THEN attempts
                      ELSE IF attempts > 0 THEN attempts - 1
                      ELSE 0)
    /\ attempts > 0 /\ ~err => pc # "connect"

\* C11: when every connection attempt of NewService failed, or when its
\* createOrderListener failed, NewService returns no service, and the process
\* then has no consumer, pulls no delivery and attempts no Ack and no publish.
C11_NoServiceNoConsumption ==
    /\ err /\ pc \notin {"connect", "listener"} => service = "nil"
    /\ service = "nil" =>
          /\ pc \in {"main_listen", "panic"}
          /\ ~consuming
          /\ ~streamOpen
          /\ buffer = <<>>
          /\ hist = <<>>
          /\ message = 0
          /\ \A m \in Msgs : msgState[m] # "unacked"

\* the process of a second run died on the failed topology setup while
\* orders were waiting on the queue
C11_Witness ==
    /\ service = "nil"
    /\ pc = "panic"
    /\ setups = 1
    /\ run = 2
    /\ \E m \in Msgs : msgState[m] = "ready"
    /\ \E m \in Msgs : msgState[m] = "acked"

\* C12: at every moment at most one delivery is between its pull and the end
\* of its loop body, and it is the one ListenOrders holds; the broker has at
\* most one unacknowledged delivery of the instance outstanding, and the
\* instance holds at most one delivery it has not acknowledged.
C12_OneDeliveryAtATime ==
    /\ Cardinality({d \in Tags : InHandling(d)}) <= 1
    /\ \A d \in Tags : InHandling(d) => d = message
    /\ Cardinality(Unacked) <= PrefetchCount
    /\ Len(buffer) + (IF message # 0 /\ ~Has(message, "ack_ok") THEN 1 ELSE 0)
          <= PrefetchCount

\* the next delivery is waiting in the stream while the acknowledged one
\* before it is still to be published
C12_Witness ==
    /\ pc = "publish"
    /\ message = 1
    /\ buffer = <<2>>
    /\ Cardinality(Unacked) = 1

\* C13: ListenOrders is out of its loop only when the stream has ended with
\* nothing left to pull, and it has returned only after the one
\* createOrderListener that followed failed; after a decode, Ack or publish
\* error, while the stream is open or a delivery is waiting, it is in its loop.
C13_LoopEndsOnlyOnStreamEnd ==
    /\ pc \in {"rebuild", "close_channel", "close_conn", "done"} =>
          /\ ~streamOpen
          /\ buffer = <<>>
          /\ message = 0
          /\ ended > 0
    /\ pc \in {"close_channel", "close_conn", "done"} => setups = 1 /\ ~consuming
    /\ \A d \in Tags :
          Finished(d) /\ Failed(d) /\ (streamOpen \/ buffer # <<>>) => pc \in LoopPcs

\* a publish failed, the next delivery was handled all the same, the stream
\* ended twice: the first rebuild succeeded, the second failed and
\* ListenOrders returned
C13_Witness ==
    /\ pc = "done"
    /\ ended = 2
    /\ Len(hist) = 2
    /\ Has(1, "publish_err")
    /\ Finished(2)

\* C14: no delivery has more than one Ack attempt or more than one publish
\* attempt, and a handled delivery has exactly one Ack attempt; a delivery
\* whose publish failed was acknowledged, was not published and not rolled
\* back, its message is off the queue, and the loop went on.
C14_OneAckOnePublish ==
    \A d \in Tags :
        /\ AckAttempts(d) <= 1
        /\ Publishes(d) <= 1
        /\ Finished(d) => AckAttempts(d) = 1
        /\ Has(d, "publish_err") =>
              /\ Finished(d)
              /\ Has(d, "ack_ok")
              /\ ~Has(d, "publish_ok")
              /\ ~Has(d, "rollback")
              /\ msgState[hist[d].msg] = "acked"

\* the publish of the first delivery failed and the second delivery is
\* being handled
C14_Witness ==
    /\ Len(hist) = 2
    /\ Has(1, "publish_err")
    /\ message = 2
    /\ pc = "ack"

\* C15: for a delivery whose body did not decode, ListenOrders takes no step
\* but one Ack attempt, whatever that Ack returns: no mockPayment, no
\* mockPaymentRollback, no publish, and the order is never charged for it.
C15_UndecodableOnlyAcked ==
    \A d \in Tags : Has(d, "decode_err") =>
        /\ hist[d].steps \in {<<"decode_err">>, <<"decode_err", "ack_ok">>,
                              <<"decode_err", "ack_err">>}
        /\ ~Has(d, "auth_true") /\ ~Has(d, "auth_false")
        /\ ~Has(d, "rollback")
        /\ Publishes(d) = 0
        /\ hist[d].pubOrder = NoOrder
        /\ Charges(hist[d].msg) = 0

\* an undecodable delivery was acknowledged and the loop is at its head
\* with the next delivery waiting
C15_Witness ==
    /\ pc = "pull"
    /\ buffer # <<>>
    /\ \E d \in Tags : Finished(d) /\ hist[d].steps = <<"decode_err", "ack_ok">>

\* C16: for a decoded and acknowledged delivery the status of the order is
\* set once, to a status the received order did not have and with the message
\* of that status, and the
\* order handed to the publisher has the id, customerCreditCard, items and
\* address of the received delivery.
C16_OnlyStatusChanges ==
    \A d \in Tags : Finished(d) /\ Has(d, "decode_ok") /\ Has(d, "ack_ok") =>
        /\ Publishes(d) = 1
        /\ hist[d].pubOrder.status # Decode(body[hist[d].msg]).status
        /\ hist[d].pubOrder.message = NewStatus(Has(d, "auth_true")).message
        /\ hist[d].pubOrder.id = body[hist[d].msg].id
        /\ hist[d].pubOrder.customerCreditCard = body[hist[d].msg].customerCreditCard
        /\ hist[d].pubOrder.items = body[hist[d].msg].items
        /\ hist[d].pubOrder.address = body[hist[d].msg].address
        /\ hist[d].pubOrder =
              [Decode(body[hist[d].msg]) EXCEPT !.status = hist[d].pubOrder.status,
                                                !.message = hist[d].pubOrder.message]

\* an order whose card has a leading space and one whose card has an upper
\* case letter were both acknowledged and handed to the publisher
C16_Witness ==
    /\ Len(hist) = 2
    /\ \A d \in Tags : Finished(d) /\ Has(d, "ack_ok") /\ Publishes(d) = 1
    /\ \E d \in Tags : Card(d) # TrimSpace(Card(d))
    /\ \E d \in Tags : Card(d) # ToLower(Card(d))

\* C17: a returned call of mockPayment returned false exactly when its
\* argument, trimmed and lowercased, has a character in a..z, which is when
\* the argument has a letter of either case; it returned true for the empty
\* string and for "4111 1111", false for "abc123" and "4111ABCD"; the result
\* is that of the mockPayment operator whatever was slept.
C17_FalseIffLetter ==
    mp \in {"true", "false"} =>
        /\ (mp = "false") =
              (\E k \in 1..Len(ToLower(TrimSpace(arg))) :
                  ToLower(TrimSpace(arg))[k] \in {"a", "b", "c", "d", "z"})
        /\ (mp = "false") =
              (\E k \in 1..Len(arg) :
                  arg[k] \in {"a", "b", "c", "d", "z", "A", "B", "C", "D", "Z"})
        /\ (mp = "true") = mockPayment(arg)
        /\ arg = <<>> => mp = "true"
        /\ arg = <<"4", "1", "1", "1", " ", "1", "1", "1", "1">> => mp = "true"
        /\ arg = <<"a", "b", "c", "1", "2", "3">> => mp = "false"
        /\ arg = <<"4", "1", "1", "1", "A", "B", "C", "D">> => mp = "false"

\* the call with "4111ABCD" returned after it had slept at every character
\* up to the first letter
C17_Witness ==
    /\ arg = <<"4", "1", "1", "1", "A", "B", "C", "D">>
    /\ mp = "false"
    /\ slept = 5 * (RandBound - 1)
    /\ Len(rest) = 4

\* C18: the steps taken for a decoded delivery are, in this order, the return
\* of mockPayment, the return of the Ack attempt, and then one rollback or
\* one publish; the Ack is under way only after mockPayment returned, and
\* rollback or publish only after the Ack attempt returned.
C18_AuthorizeAckThenOutcome ==
    /\ \A d \in Tags : Has(d, "decode_ok") =>
          /\ Len(hist[d].steps) <= 4
          /\ hist[d].steps[1] = "decode_ok"
          /\ Len(hist[d].steps) >= 2 => hist[d].steps[2] \in {"auth_true", "auth_false"}
          /\ Len(hist[d].steps) >= 3 => hist[d].steps[3] \in {"ack_ok", "ack_err"}
          /\ Len(hist[d].steps) >= 4 =>
                hist[d].steps[4] \in {"rollback", "publish_ok", "publish_err"}
    /\ pc = "ack" => Len(hist[message].steps) = 2
    /\ pc \in {"rollback", "publish"} => Len(hist[message].steps) = 3

\* one delivery went through authorize, Ack and publish, and the next one
\* through authorize, failed Ack and rollback
C18_Witness ==
    /\ Len(hist) = 2
    /\ hist[1].steps = <<"decode_ok", "auth_false", "ack_ok", "publish_ok">>
    /\ hist[2].steps = <<"decode_ok", "auth_true", "ack_err", "rollback">>

\* C19 as stated: at every point during and after NewService the process has
\* at most one connection that it dialed and did not close.
C19_AtMostOneConnection == Cardinality(openConns) <= 1

\* C20: createServer closes nothing before ListenOrders has returned; then it
\* closes the channel and after it the connection, and the connection close
\* is attempted whether the channel close returned an error or not.
C20_CloseChannelThenConn ==
    /\ closeLog \in {<<>>, <<"channel">>, <<"channel_err">>,
                     <<"channel", "conn">>, <<"channel_err", "conn">>}
    /\ pc \in LoopPcs \cup {"connect", "listener", "main_listen", "rebuild",
                             "close_channel", "panic"} => closeLog = <<>>
    /\ pc \in LoopPcs \cup {"rebuild", "close_channel"} => AmqpConn \in openConns
    /\ pc = "close_conn" => Len(closeLog) = 1
    /\ pc = "done" => Len(closeLog) = 2 /\ AmqpConn \notin openConns

\* the channel close returned an error and the connection was closed after it
C20_Witness ==
    /\ pc = "done"
    /\ closeLog = <<"channel_err", "conn">>

====
